---- MODULE Spec2Model ----
(***************************************************************************)
(* Model of package log (src/log/log.go): the process-wide logrus logger,  *)
(* its dated log file and rotateLog, the periodicLogRotation goroutine,    *)
(* the emission functions and the Meilisearch / Elasticsearch hooks.       *)
(*                                                                         *)
(* Threads: the main goroutine (Init, the teardown closure, the hook       *)
(* registration functions), one goroutine per `go periodicLogRotation()`,  *)
(* and writer goroutines calling the emission functions.  An action is a   *)
(* run of statements with at most one access to state that other           *)
(* goroutines share: a statement on the package variables or on a file, or *)
(* a logrus call that runs under the logger's mutex (SetOutput, AddHook,   *)
(* the copy of the hooks in fireHooks, Entry.write).  rotateLog takes no   *)
(* lock of its own, so its statements are separate steps.                  *)
(***************************************************************************)
EXTENDS Integers, Sequences, FiniteSets, TLC

\* ---------------------------------------------------------------- bounds
MaxOps     == 3       \* calls made over the run: Init, rotation ticks, emissions
NumWriters == 1       \* writer goroutines
MaxDay     == 2       \* calendar days the clock runs through
MaxHooks   == 2       \* hooks on the logger when AddHook is called directly

\* ------------------------------------------------------ program constants
ErrorLevel == 2       \* logrus.ErrorLevel
InfoLevel  == 4       \* logrus.InfoLevel
Stderr     == -2      \* os.Stderr, the Out of a logger made by logrus.New()
Stdout     == -1      \* os.Stdout
NilFile    == 0       \* a nil *os.File
NilLogger  == 0       \* a nil *logrus.Logger

Rotators == 1..MaxOps
Writers  == (MaxOps + 1)..(MaxOps + NumWriters)
Main     == MaxOps + NumWriters + 1
Threads  == {Main} \cup Rotators \cup Writers
Emitters == Rotators \cup Writers
Handles  == 1..(MaxOps + 1)
Days     == 1..MaxDay
Levels   == {ErrorLevel, InfoLevel}
Kinds    == {"meili", "es"}

\* A path is a sequence of name parts; ".log" is the suffix rotateLog trims.
NoPath     == <<>>
OutputFiles == {NoPath, <<"app", ".log">>, <<"app">>}

\* strings.TrimSuffix(p, ".log")
TrimSuffix(p) ==
    IF Len(p) > 0 /\ p[Len(p)] = ".log" THEN SubSeq(p, 1, Len(p) - 1) ELSE p

\* fmt.Sprintf("%s.%s.log", strings.TrimSuffix(logPath, ".log"), <date>)
DatedPath(p, d) == <<TrimSuffix(p), d>>

AllPaths == {DatedPath(p, d) : p \in OutputFiles, d \in Days}

\* *config.Logger, the argument of Init.
Config(lv, fmt, o, file, meili, es) ==
    [Level |-> lv, Format |-> fmt, Output |-> o, OutputFile |-> file,
     MeiliHost |-> meili, ESAddresses |-> es, IndexName |-> "logs"]

\* The configurations the main goroutine passes: every output kind, with and
\* without a path, with and without each indexer.
Configs ==
    { Config(InfoLevel, "json", "stdout", NoPath, "", 0),
      Config(ErrorLevel, "text", "stderr", NoPath, "meili:7700", 0),
      Config(InfoLevel, "json", "file", <<"app", ".log">>, "", 0),
      Config(InfoLevel, "json", "file", <<"app">>, "meili:7700", 1),
      Config(ErrorLevel, "text", "file", NoPath, "", 1) }

VARIABLES
    \* the logrus logger behind StandardLogger()
    level, formatter, out, hooks,
    \* package variables of log.go
    logFile, logPath, meiliClient, esClient, indexName,
    \* the operating system: file handles, file contents, console, clock
    isOpen, hpath, nHandles, disk, console, today,
    \* goroutines: program counters and locals
    pc, f, cur, nEmit, hookErr, cfg, nInits, nTicks, haveTeardown,
    \* the indexing backends: the documents submitted to each
    calls,
    \* history (what an observer of the run records)
    tornDown, pre, initErr, hookFailed, writes, failStage, ioFault,
    \* entry construction: the version (line 32), the caller's context and
    \* fields, the entry built, and the trace ids generated so far
    version, tctx, targs, tentry, tgen,
    \* the context, fields and entry of the call before that one
    tprev,
    \* StandardLogger(): the package variables of lines 30-31 (once is its done
    \* flag and the holder of its mutex), the loggers constructed, and each
    \* caller's position, calls made and last result
    standardLogger, onceDone, onceM, nNew, spc, ncall, got

logger  == <<level, formatter, out, hooks>>
globals == <<logFile, logPath, meiliClient, esClient, indexName>>
os      == <<isOpen, hpath, nHandles, disk, console, today>>
thr     == <<pc, f, cur, nEmit, hookErr, cfg, nInits, nTicks, haveTeardown>>
hist    == <<tornDown, pre, initErr, hookFailed, writes, failStage, ioFault>>
tvars   == <<version, tctx, targs, tentry, tgen, tprev>>
ovars   == <<standardLogger, onceDone, onceM, nNew, spc, ncall, got>>
run     == <<logger, globals, os, thr, calls, hist>>
vars    == <<run, tvars, ovars>>

\* Field values, trace ids among them, are pairs <<tag, n>>; the empty string
\* is NoValue.  logrus.Fields is a function from keys to values.
NoValue  == <<>>
NoFields == [k \in {} |-> NoValue]
TraceIDKey == "trace_id"
VersionKey == "version"

NoEntry == <<>>
NoCfg   == [Level |-> InfoLevel, Format |-> "json", Output |-> "stderr",
            OutputFile |-> NoPath, MeiliHost |-> "", ESAddresses |-> 0,
            IndexName |-> "logs"]

OpenHandles == {h \in 1..nHandles : isOpen[h]}
Running     == {r \in Rotators : pc[r] # "off"}

\* What the logger and the process own: compared before and after a failed Init.
Capability ==
    [level |-> level, formatter |-> formatter, out |-> out, hooks |-> hooks,
     logFile |-> logFile, open |-> OpenHandles, rotating |-> Running]

\* pre once the Init it was taken for has returned without the Elasticsearch error
NoPre ==
    [level |-> InfoLevel, formatter |-> "json", out |-> Stderr, hooks |-> <<>>,
     logFile |-> NilFile, open |-> {}, rotating |-> {}]

\* StandardLogger(): logrus.New() with a JSON formatter; Out is os.Stderr,
\* the level is InfoLevel and there are no hooks.
InitRun ==
    /\ level = InfoLevel /\ formatter = "json" /\ out = Stderr /\ hooks = <<>>
    /\ logFile = NilFile /\ logPath = NoPath
    /\ meiliClient = FALSE /\ esClient = FALSE /\ indexName = ""
    /\ isOpen = [h \in Handles |-> FALSE]
    /\ hpath = [h \in Handles |-> DatedPath(NoPath, 1)]
    /\ nHandles = 0
    /\ disk = [p \in AllPaths |-> <<>>]
    /\ console = [s \in {Stdout, Stderr} |-> <<>>]
    /\ today = 1
    /\ pc = [t \in Threads |-> IF t = Main THEN "idle"
                               ELSE IF t \in Rotators THEN "off" ELSE "idle"]
    /\ f = [t \in Threads |-> NilFile]
    /\ cur = [t \in Threads |-> NoEntry]
    /\ nEmit = [t \in Threads |-> 0]
    /\ hookErr = [t \in Threads |-> FALSE]
    /\ cfg = NoCfg /\ nInits = 0 /\ nTicks = 0 /\ haveTeardown = FALSE
    /\ calls = [k \in Kinds |-> <<>>]
    /\ tornDown = FALSE /\ pre = NoPre /\ initErr = "none"
    /\ hookFailed = {} /\ writes = {}
    /\ failStage = [t \in Threads |-> "none"]
    /\ ioFault = [t \in Threads |-> FALSE]

\* No entry built yet, from a context without a trace id.
InitEntry ==
    /\ version = NoValue /\ tctx = NoValue /\ targs = NoFields
    /\ tentry = NoFields /\ tgen = 0
    /\ tprev = [ctx |-> NoValue, args |-> NoFields, entry |-> NoFields]

\* Goroutines calling StandardLogger(), directly or through Init, the
\* emission functions, SetOutput or AddHook.
Callers == 1..MaxOps

\* Lines 30-31: standardLogger is nil and once is unused.
InitOnce ==
    /\ standardLogger = NilLogger /\ onceDone = FALSE /\ onceM = 0 /\ nNew = 0
    /\ spc = [c \in Callers |-> "idle"]
    /\ ncall = [c \in Callers |-> 0]
    /\ got = [c \in Callers |-> NilLogger]

Init == InitRun /\ InitEntry /\ InitOnce

\* ------------------------------------------------------------ budget
RECURSIVE SumOver(_, _)
SumOver(g, S) ==
    IF S = {} THEN 0
    ELSE LET x == CHOOSE y \in S : TRUE IN g[x] + SumOver(g, S \ {x})

\* The calls made so far (Init, ticks, emissions); a new one starts only
\* below MaxOps.
Work == nInits + nTicks + SumOver(nEmit, Writers)

\* ------------------------------------------------------------ os.File
\* (*os.File).Close: the descriptor is released whatever close(2) answers, and
\* a second Close answers os.ErrClosed.  ok is close(2)'s answer on an open file.
CloseErr(h, ok) == ~isOpen[h] \/ ~ok
Closed(h)       == [isOpen EXCEPT ![h] = FALSE]

\* ------------------------------------------------------------ hooks
\* (mutant) hooks that do not test their client for nil
ClientUnchecked(k) == TRUE

\* The backend client of a hook kind, nil or not (lines 222, 239).
Client(k) == IF k = "meili" THEN meiliClient ELSE esClient

\* logrus LevelHooks.Fire: the hooks in registration order, stopping at the
\* first error.  res[i] is the answer of the i-th hook's backend call.
HookFails(res, i) == Client(hooks[i]) /\ ~res[i]
FirstErr(res) ==
    IF \E i \in 1..Len(hooks) : HookFails(res, i)
    THEN CHOOSE i \in 1..Len(hooks) :
           HookFails(res, i) /\ \A j \in 1..(i - 1) : ~HookFails(res, j)
    ELSE 0
LastFired(res) == IF FirstErr(res) = 0 THEN Len(hooks) ELSE FirstErr(res)

\* MeiliSearchHook.Fire / ElasticSearchHook.Fire (lines 221-243) of the hooks
\* 1..n, in order: the entry is submitted to the backend of every hook whose
\* client is set.
RECURSIVE Submitted(_, _, _)
Submitted(c, e, n) ==
    IF n = 0 THEN c
    ELSE LET b == Submitted(c, e, n - 1)
             k == hooks[n]
         IN IF Client(k) THEN [b EXCEPT ![k] = Append(@, e)] ELSE b

\* (mutant) an emission that gives up when a hook fails
AfterFireAbort(failed) == IF failed THEN "return" ELSE "write"

\* Where an emission goes after logrus Entry.fireHooks: on to Entry.write,
\* whatever the hooks answered (their error is printed on os.Stderr).
AfterFire(failed) == "write"

\* logrus Entry.log for entry e of goroutine t at level lv: nothing when the
\* level is not enabled (back to pc value rest); otherwise fireHooks.
LogEntry(t, e, lv, rest) ==
    IF level >= lv
    THEN \E res \in [1..Len(hooks) -> BOOLEAN] :
           /\ calls' = Submitted(calls, e, LastFired(res))
           /\ hookErr' = [hookErr EXCEPT ![t] = FirstErr(res) # 0]
           /\ hookFailed' = IF FirstErr(res) # 0 THEN hookFailed \cup {e}
                            ELSE hookFailed
           /\ IF AfterFire(FirstErr(res) # 0) = "write"
              THEN /\ cur' = [cur EXCEPT ![t] = e]
                   /\ pc' = [pc EXCEPT ![t] = "write"]
              ELSE /\ pc' = [pc EXCEPT ![t] = rest]
                   /\ UNCHANGED cur
    ELSE /\ pc' = [pc EXCEPT ![t] = rest]
         /\ UNCHANGED <<calls, hookErr, hookFailed, cur>>

\* ------------------------------------------------------------ rotateLog
\* Where rotateLog's caller goes on: Init through setupLogFile (line 74),
\* periodicLogRotation at line 137.
RotErr(t) == IF t = Main THEN "idle" ELSE "logerr"

\* return err (lines 117, 124); fault tells whether the file system failed
RotFail(t, stage, fault) ==
    /\ pc' = [pc EXCEPT ![t] = RotErr(t)]
    /\ initErr' = IF t = Main THEN "file" ELSE initErr
    /\ failStage' = IF t = Main THEN failStage ELSE [failStage EXCEPT ![t] = stage]
    /\ ioFault' = IF t = Main THEN ioFault ELSE [ioFault EXCEPT ![t] = fault]

RotGoOn(t, next) ==
    /\ pc' = [pc EXCEPT ![t] = next]
    /\ UNCHANGED <<initErr, failStage, ioFault>>

\* (mutant) a rotateLog that opens the next file without closing the current one
CloseCurrentSkip(t) == RotGoOn(t, "open") /\ UNCHANGED isOpen

\* lines 115-119: close the current file, if any
CloseCurrent(t) ==
    IF logFile # NilFile
    THEN \E ok \in BOOLEAN :
           /\ isOpen' = Closed(logFile)
           /\ IF CloseErr(logFile, ok)
              THEN RotFail(t, "close", isOpen[logFile])
              ELSE RotGoOn(t, "open")
    ELSE /\ RotGoOn(t, "open")
         /\ UNCHANGED isOpen

\* rotateLog called by Init (setupLogFile, line 111)
RotClose(t) ==
    /\ UNCHANGED <<tvars, ovars>>
    /\ pc[t] = "close"
    /\ CloseCurrent(t)
    /\ UNCHANGED <<logger, globals, hpath, nHandles, disk, console, today,
                   f, cur, nEmit, hookErr, cfg, nInits, nTicks, haveTeardown, calls,
                   tornDown, pre, hookFailed, writes>>

\* lines 121-125: open the file dated time.Now() in append mode, created if
\* absent; ok is os.OpenFile's answer.
RotOpen(t) ==
    /\ UNCHANGED <<tvars, ovars>>
    /\ pc[t] = "open"
    /\ \E ok \in BOOLEAN :
         IF ok
         THEN /\ nHandles' = nHandles + 1
              /\ isOpen' = [isOpen EXCEPT ![nHandles + 1] = TRUE]
              /\ hpath' = [hpath EXCEPT ![nHandles + 1] = DatedPath(logPath, today)]
              /\ f' = [f EXCEPT ![t] = nHandles + 1]
              /\ RotGoOn(t, "assign")
         ELSE /\ RotFail(t, "open", TRUE)
              /\ UNCHANGED <<isOpen, hpath, nHandles, f>>
    /\ UNCHANGED <<logger, globals, disk, console, today,
                   cur, nEmit, hookErr, cfg, nInits, nTicks, haveTeardown, calls,
                   tornDown, pre, hookFailed, writes>>

\* line 127: logFile = f
RotAssign(t) ==
    /\ UNCHANGED <<tvars, ovars>>
    /\ pc[t] = "assign"
    /\ logFile' = f[t]
    /\ pc' = [pc EXCEPT ![t] = "setout"]
    /\ UNCHANGED <<logger, logPath, meiliClient, esClient, indexName, os,
                   f, cur, nEmit, hookErr, cfg, nInits, nTicks, haveTeardown, calls, hist>>

\* The rotation goroutine line 77 starts: the first one not yet running.
NewRotator ==
    CHOOSE x \in Rotators : pc[x] = "off" /\ \A y \in Rotators : pc[y] = "off" => x <= y

\* lines 128-129: StandardLogger().SetOutput(logFile); return nil.  In Init
\* the next statement is line 77, go periodicLogRotation().
RotSetOutput(t) ==
    /\ UNCHANGED <<tvars, ovars>>
    /\ pc[t] = "setout"
    /\ out' = logFile
    /\ pc' = IF t = Main
             THEN [pc EXCEPT ![Main] = "hooks", ![NewRotator] = "wait"]
             ELSE [pc EXCEPT ![t] = "wait"]
    /\ UNCHANGED <<level, formatter, hooks, globals, os,
                   f, cur, nEmit, hookErr, cfg, nInits, nTicks, haveTeardown, calls, hist>>

rotateLog(t) == RotClose(t) \/ RotOpen(t) \/ RotAssign(t) \/ RotSetOutput(t)

\* ------------------------------------------------- periodicLogRotation
\* lines 136-137: the ticker fires, 24 hours after it last did (nothing stops
\* the loop), and rotateLog starts.  The local date is then the same or the
\* next one (two tickers a few hours apart, or a 25-hour day).
TickIn(r, max) ==
    /\ UNCHANGED <<tvars, ovars>>
    /\ pc[r] = "wait"
    /\ Work < max
    /\ nTicks' = nTicks + 1
    /\ \E d \in {today, today + 1} \cap Days : today' = d
    /\ CloseCurrent(r)
    /\ UNCHANGED <<logger, globals, hpath, nHandles, disk, console,
                   f, cur, nEmit, hookErr, cfg, nInits, haveTeardown, calls,
                   tornDown, pre, hookFailed, writes>>

Tick(r) == TickIn(r, MaxOps)

\* lines 137-139: rotateLog failed; StandardLogger().Errorf("Error rotating log")
RotLogErr(r) ==
    /\ UNCHANGED <<tvars, ovars>>
    /\ pc[r] = "logerr"
    /\ nEmit' = [nEmit EXCEPT ![r] = @ + 1]
    /\ LogEntry(r, <<r, nEmit[r] + 1, ErrorLevel>>, ErrorLevel, "wait")
    /\ failStage' = [failStage EXCEPT ![r] = "none"]
    /\ ioFault' = [ioFault EXCEPT ![r] = FALSE]
    /\ UNCHANGED <<logger, globals, os, f, cfg, nInits, nTicks, haveTeardown,
                   tornDown, pre, initErr, writes>>

\* ------------------------------------------------------------ emission
\* Infof .. Panic (lines 165-211): entryFromContext(ctx), then logrus
\* Entry.Log at the level of the function.
EmitIn(w, lv, max) ==
    /\ UNCHANGED <<tvars, ovars>>
    /\ pc[w] = "idle"
    /\ Work < max
    /\ nEmit' = [nEmit EXCEPT ![w] = @ + 1]
    /\ LogEntry(w, <<w, nEmit[w] + 1, lv>>, lv, "idle")
    /\ UNCHANGED <<logger, globals, os, f, cfg, nInits, nTicks, haveTeardown,
                   tornDown, pre, initErr, writes, failStage, ioFault>>

Emit(w, lv) == EmitIn(w, lv, MaxOps)

\* logrus Entry.write, under the logger's mutex: format the entry and hand it
\* to Out.  A write to a closed file fails (os.ErrClosed) and the entry goes
\* nowhere but a note on os.Stderr.
SinkOk == out \in {Stdout, Stderr} \/ isOpen[out]

\* (mutant) a write that lands before what the file holds
FileWriteFront(q, e) == <<e>> \o q

\* (mutant) a write at offset 0 of the file, as without O_APPEND
FileWriteOver(q, e) == <<e>> \o SubSeq(q, 2, Len(q))

\* write(2) on a file opened with os.O_APPEND (line 122): at the end of what
\* the file holds
FileWrite(q, e) == Append(q, e)

\* (mutant) a write that falls back to os.Stderr when the sink fails
WriteFallback(t) ==
    /\ UNCHANGED <<tvars, ovars>>
    /\ pc[t] = "write"
    /\ IF out \in {Stdout, Stderr}
       THEN /\ console' = [console EXCEPT ![out] = Append(@, cur[t])]
            /\ UNCHANGED disk
       ELSE IF isOpen[out]
            THEN /\ disk' = [disk EXCEPT ![hpath[out]] = Append(@, cur[t])]
                 /\ UNCHANGED console
            ELSE UNCHANGED <<disk, console>>
    /\ out' = IF SinkOk THEN out ELSE Stderr
    /\ writes' = writes \cup {[e |-> cur[t], sink |-> out, ok |-> SinkOk]}
    /\ cur' = [cur EXCEPT ![t] = NoEntry]
    /\ hookErr' = [hookErr EXCEPT ![t] = FALSE]
    /\ pc' = [pc EXCEPT ![t] = IF t \in Rotators THEN "wait" ELSE "idle"]
    /\ UNCHANGED <<level, formatter, hooks, globals, isOpen, hpath, nHandles, today,
                   f, nEmit, cfg, nInits, nTicks, haveTeardown, calls,
                   tornDown, pre, initErr, hookFailed, failStage, ioFault>>

Write(t) ==
    /\ UNCHANGED <<tvars, ovars>>
    /\ pc[t] = "write"
    /\ IF out \in {Stdout, Stderr}
       THEN /\ console' = [console EXCEPT ![out] = Append(@, cur[t])]
            /\ UNCHANGED disk
       ELSE IF isOpen[out]
            THEN /\ disk' = [disk EXCEPT ![hpath[out]] = FileWrite(@, cur[t])]
                 /\ UNCHANGED console
            ELSE UNCHANGED <<disk, console>>
    /\ writes' = writes \cup {[e |-> cur[t], sink |-> out, ok |-> SinkOk]}
    /\ cur' = [cur EXCEPT ![t] = NoEntry]
    /\ hookErr' = [hookErr EXCEPT ![t] = FALSE]
    /\ pc' = [pc EXCEPT ![t] = IF t \in Rotators THEN "wait" ELSE "idle"]
    /\ UNCHANGED <<logger, globals, isOpen, hpath, nHandles, today,
                   f, nEmit, cfg, nInits, nTicks, haveTeardown, calls,
                   tornDown, pre, initErr, hookFailed, failStage, ioFault>>

periodicLogRotation(r) ==
    Tick(r) \/ RotOpen(r) \/ RotAssign(r) \/ RotSetOutput(r) \/ RotLogErr(r) \/ Write(r)

\* ------------------------------------------------------ hook registration
\* hookExists (lines 266-275): existingHook == hook compares the dynamic type
\* and the address of a freshly allocated &MeiliSearchHook{} (or
\* &ElasticSearchHook{}) with the registered ones.  Both are zero-size structs,
\* and pointers to distinct zero-size variables may or may not be equal: same
\* is the answer of that comparison.
hookExists(hs, k, same) == \E i \in 1..Len(hs) : hs[i] = k /\ same

\* (mutant) registration that does not test the client for nil
AddHookOfAnyway(hs, k, client, same) ==
    IF ~hookExists(hs, k, same) THEN Append(hs, k) ELSE hs

\* AddMeiliSearchHook / AddElasticSearchHook (lines 246-263): the hook list
\* after the call.  logrus AddHook appends the hook under every level of
\* Levels(), here all of them, so one list stands for each level's.
AddHookOf(hs, k, client, same) ==
    IF client /\ ~hookExists(hs, k, same) THEN Append(hs, k) ELSE hs

AddMeiliSearchHook ==
    /\ UNCHANGED <<tvars, ovars>>
    /\ pc[Main] = "idle" /\ ~tornDown
    /\ Work + Len(hooks) < MaxOps
    /\ \E same \in BOOLEAN : hooks' = AddHookOf(hooks, "meili", meiliClient, same)
    /\ UNCHANGED <<level, formatter, out, globals, os, thr, calls, hist>>

AddElasticSearchHook ==
    /\ UNCHANGED <<tvars, ovars>>
    /\ pc[Main] = "idle" /\ ~tornDown
    /\ Work + Len(hooks) < MaxOps
    /\ \E same \in BOOLEAN : hooks' = AddHookOf(hooks, "es", esClient, same)
    /\ UNCHANGED <<level, formatter, out, globals, os, thr, calls, hist>>

\* ------------------------------------------------------------------ Init
FileOutput(c) == c.Output = "file" /\ c.OutputFile # NoPath

\* lines 56-76: level, formatter, output; for a file, logPath and
\* setupLogFile's os.MkdirAll (mk is its answer), whose failure Init returns.
InitStartIn(c, max) ==
    /\ UNCHANGED <<tvars, ovars>>
    /\ pc[Main] = "idle" /\ ~tornDown
    /\ Work < max
    /\ nInits' = nInits + 1
    /\ cfg' = c
    /\ pre' = Capability
    /\ level' = c.Level
    /\ formatter' = IF c.Format = "json" THEN "json" ELSE "text"
    /\ out' = CASE c.Output = "stdout" -> Stdout
                [] c.Output = "stderr" -> Stderr
                [] OTHER -> out
    /\ logPath' = IF c.Output = "file" THEN c.OutputFile ELSE logPath
    /\ haveTeardown' = FALSE
    /\ IF FileOutput(c)
       THEN \E mk \in BOOLEAN :
              /\ pc' = [pc EXCEPT ![Main] = IF mk THEN "close" ELSE "idle"]
              /\ initErr' = IF mk THEN "none" ELSE "file"
       ELSE /\ pc' = [pc EXCEPT ![Main] = "hooks"]
            /\ initErr' = "none"
    /\ UNCHANGED <<hooks, logFile, meiliClient, esClient, indexName, os,
                   f, cur, nEmit, hookErr, nTicks, calls, tornDown, hookFailed,
                   writes, failStage, ioFault>>

InitStart(c) == InitStartIn(c, MaxOps)

\* lines 82-104.  elastic.NewClient may fail (ok), and then Init returns the
\* error, with esClient what NewClient returned with it, nil; otherwise the
\* Elasticsearch hook is registered and the teardown closure returned.
InitHooks ==
    /\ UNCHANGED <<tvars, ovars>>
    /\ pc[Main] = "hooks"
    /\ pc' = [pc EXCEPT ![Main] = "idle"]
    /\ cfg' = NoCfg
    /\ \E sameM \in BOOLEAN, sameE \in BOOLEAN, ok \in BOOLEAN :
         LET hm == IF cfg.MeiliHost # ""
                   THEN AddHookOf(hooks, "meili", TRUE, sameM) ELSE hooks
         IN /\ meiliClient' = (meiliClient \/ cfg.MeiliHost # "")
            /\ IF cfg.ESAddresses > 0
               THEN IF ok
                    THEN /\ esClient' = TRUE
                         /\ hooks' = AddHookOf(hm, "es", TRUE, sameE)
                         /\ indexName' = cfg.IndexName
                         /\ haveTeardown' = TRUE /\ initErr' = "ok" /\ pre' = NoPre
                    ELSE /\ esClient' = FALSE
                         /\ hooks' = hm
                         /\ indexName' = IF cfg.MeiliHost # "" THEN cfg.IndexName
                                         ELSE indexName
                         /\ haveTeardown' = FALSE /\ initErr' = "es"
                         /\ UNCHANGED pre
               ELSE /\ hooks' = hm
                    /\ indexName' = IF cfg.MeiliHost # "" THEN cfg.IndexName
                                    ELSE indexName
                    /\ haveTeardown' = TRUE /\ initErr' = "ok" /\ pre' = NoPre
                    /\ UNCHANGED esClient
    /\ UNCHANGED <<level, formatter, out, logFile, logPath, os,
                   f, cur, nEmit, hookErr, nInits, nTicks, calls,
                   tornDown, hookFailed, writes, failStage, ioFault>>

\* lines 100-104: the closure Init returned, called at shutdown
Teardown ==
    /\ UNCHANGED <<tvars, ovars>>
    /\ pc[Main] = "idle" /\ haveTeardown /\ ~tornDown
    /\ isOpen' = IF logFile # NilFile THEN Closed(logFile) ELSE isOpen
    /\ tornDown' = TRUE
    /\ UNCHANGED <<logger, globals, hpath, nHandles, disk, console, today,
                   thr, calls, pre, initErr, hookFailed, writes, failStage, ioFault>>

Next ==
    \/ \E c \in Configs : InitStart(c)
    \/ rotateLog(Main)
    \/ InitHooks
    \/ Teardown
    \/ AddMeiliSearchHook
    \/ AddElasticSearchHook
    \/ \E r \in Rotators : periodicLogRotation(r)
    \/ \E w \in Writers, lv \in Levels : Emit(w, lv)
    \/ \E w \in Writers : Write(w)

Spec == Init /\ [][Next]_vars

\* Init, the rotation goroutines and teardown alone: no goroutine emits but
\* the rotation's own error report.
NextFiles ==
    \/ \E c \in Configs : InitStart(c)
    \/ rotateLog(Main)
    \/ InitHooks
    \/ Teardown
    \/ \E r \in Rotators : periodicLogRotation(r)

SpecFiles == Init /\ [][NextFiles]_vars

\* Init, hook registration, teardown and the writers: the ticker does not fire.
NextEmit ==
    \/ \E c \in Configs : InitStart(c)
    \/ rotateLog(Main)
    \/ InitHooks
    \/ Teardown
    \/ AddMeiliSearchHook
    \/ AddElasticSearchHook
    \/ \E w \in Writers, lv \in Levels : Emit(w, lv)
    \/ \E w \in Writers : Write(w)

SpecEmit == Init /\ [][NextEmit]_vars

\* A service that logs to a dated file and indexes nothing: Init once with
\* such a configuration, then its rotation goroutine and its writers, for one
\* call more than MaxOps.
PlainFiles == {c \in Configs : FileOutput(c) /\ c.MeiliHost = "" /\ c.ESAddresses = 0}

NextRotate ==
    \/ \E c \in PlainFiles : nInits = 0 /\ InitStartIn(c, MaxOps + 1)
    \/ rotateLog(Main)
    \/ InitHooks
    \/ \E r \in Rotators :
         \/ TickIn(r, MaxOps + 1)
         \/ RotOpen(r) \/ RotAssign(r) \/ RotSetOutput(r) \/ RotLogErr(r) \/ Write(r)
    \/ \E w \in Writers, lv \in Levels : EmitIn(w, lv, MaxOps + 1)
    \/ \E w \in Writers : Write(w)

SpecRotate == Init /\ [][NextRotate]_vars

\* SetOutput (lines 278-280), called with os.Stdout
SetOutput(o) ==
    /\ UNCHANGED <<tvars, ovars>>
    /\ pc[Main] = "idle" /\ ~tornDown
    /\ out' = o
    /\ UNCHANGED <<level, formatter, hooks, globals, os, thr, calls, hist>>

\* AddHook (lines 283-285), called with a hook of kind k: no test of any kind
AddHook(k) ==
    /\ UNCHANGED <<tvars, ovars>>
    /\ pc[Main] = "idle" /\ ~tornDown
    /\ Len(hooks) < MaxHooks /\ Work + Len(hooks) < MaxOps
    /\ hooks' = Append(hooks, k)
    /\ UNCHANGED <<level, formatter, out, globals, os, thr, calls, hist>>

\* A service that logs to a dated file, with or without indexers, and
\* overrides the output: Init once, its rotation goroutine, its writers and
\* SetOutput.
NextStable ==
    \/ \E c \in {x \in Configs : FileOutput(x)} : nInits = 0 /\ InitStart(c)
    \/ rotateLog(Main)
    \/ InitHooks
    \/ SetOutput(Stdout)
    \/ \E r \in Rotators : periodicLogRotation(r)
    \/ \E w \in Writers, lv \in Levels : Emit(w, lv)
    \/ \E w \in Writers : Write(w)

SpecStable == Init /\ [][NextStable]_vars

\* Console logging with the direct overrides of lines 278-285: Init without a
\* log file, SetOutput, AddHook and the writers.
NextDirect ==
    \/ \E c \in {x \in Configs : ~FileOutput(x)} : InitStart(c)
    \/ InitHooks
    \/ SetOutput(Stdout)
    \/ \E k \in Kinds : AddHook(k)
    \/ \E w \in Writers, lv \in Levels : Emit(w, lv)
    \/ \E w \in Writers : Write(w)

SpecDirect == Init /\ [][NextDirect]_vars

\* ------------------------------------------------------ entry construction
\* The trace ids a caller's context may carry (NoValue: none) and the values
\* a caller may give a field.
CtxIDs      == {NoValue, <<"req", 1>>, <<"req", 2>>}
FieldValues == {NoValue, <<"req", 1>>, <<"usr", 1>>}
CallerKeys  == {TraceIDKey, "user"}
CallerFields == UNION {[K -> FieldValues] : K \in SUBSET CallerKeys}
Versions    == {NoValue, <<"ver", 1>>}

\* getTraceID(ctx): the trace id the context carries, "" when it has none.
getTraceID(ctx) == ctx

\* EnsureTraceID(ctx): the context's id when it has one, otherwise a new
\* unique id; n ids were generated before.
EnsureTraceID(ctx, n) == IF getTraceID(ctx) # NoValue THEN getTraceID(ctx) ELSE <<"gen", n + 1>>

\* logrus Entry.WithFields: the entry's fields, each caller field added or
\* put in place of the field of the same key.
WithFields(data, fields) ==
    [k \in DOMAIN data \cup DOMAIN fields |->
        IF k \in DOMAIN fields THEN fields[k] ELSE data[k]]

\* entryFromContext (lines 149-163), with v the package's version
entryFromContext(ctx, v, n) ==
    LET traceID == IF getTraceID(ctx) = NoValue THEN EnsureTraceID(ctx, n)
                   ELSE getTraceID(ctx)
        fields  == [k \in {TraceIDKey} |-> traceID]
    IN IF v # NoValue THEN WithFields(fields, [k \in {VersionKey} |-> v])
       ELSE fields

\* EntryWithFields (lines 144-146)
EntryWithFields(ctx, fields, v, n) == WithFields(entryFromContext(ctx, v, n), fields)

Generated(ctx) == IF getTraceID(ctx) = NoValue THEN 1 ELSE 0

\* SetVersion (lines 50-52)
SetVersion(v) ==
    /\ UNCHANGED <<run, ovars>>
    /\ version' = v
    /\ UNCHANGED <<tctx, targs, tentry, tgen, tprev>>

\* A caller builds an entry from its context: entryFromContext, as every
\* emission function does (lines 165-211) ...
CallEntryFromContext(ctx) ==
    /\ UNCHANGED <<run, ovars>>
    /\ tgen + Generated(ctx) <= MaxOps
    /\ tctx' = ctx /\ targs' = NoFields
    /\ tprev' = [ctx |-> tctx, args |-> targs, entry |-> tentry]
    /\ tentry' = entryFromContext(ctx, version, tgen)
    /\ tgen' = tgen + Generated(ctx)
    /\ UNCHANGED version

\* ... or EntryWithFields with fields of its own.
CallEntryWithFields(ctx, fields) ==
    /\ UNCHANGED <<run, ovars>>
    /\ tgen + Generated(ctx) <= MaxOps
    /\ tctx' = ctx /\ targs' = fields
    /\ tprev' = [ctx |-> tctx, args |-> targs, entry |-> tentry]
    /\ tentry' = EntryWithFields(ctx, fields, version, tgen)
    /\ tgen' = tgen + Generated(ctx)
    /\ UNCHANGED version

NextEntry ==
    \/ \E v \in Versions : SetVersion(v)
    \/ \E ctx \in CtxIDs : CallEntryFromContext(ctx)
    \/ \E ctx \in CtxIDs, fields \in CallerFields : CallEntryWithFields(ctx, fields)

SpecEntry == Init /\ [][NextEntry]_vars

\* ------------------------------------------------------ StandardLogger
\* line 41: caller c enters StandardLogger()
SLCall(c) ==
    /\ UNCHANGED <<run, tvars>>
    /\ spc[c] = "idle" /\ ncall[c] < MaxDay
    /\ ncall' = [ncall EXCEPT ![c] = @ + 1]
    /\ spc' = [spc EXCEPT ![c] = "do"]
    /\ UNCHANGED <<standardLogger, onceDone, onceM, nNew, got>>

\* line 42, sync.Once.Do: the fast path when done is set, doSlow otherwise
OnceDo(c) ==
    /\ UNCHANGED <<run, tvars>>
    /\ spc[c] = "do"
    /\ spc' = [spc EXCEPT ![c] = IF onceDone THEN "ret" ELSE "lock"]
    /\ UNCHANGED <<standardLogger, onceDone, onceM, nNew, ncall, got>>

\* (mutant) a doSlow that does not wait for the mutex
OnceLockNoWait(c) ==
    /\ UNCHANGED <<run, tvars>>
    /\ spc[c] = "lock"
    /\ onceM' = c
    /\ spc' = [spc EXCEPT ![c] = IF onceDone THEN "unlock" ELSE "f"]
    /\ UNCHANGED <<standardLogger, onceDone, nNew, ncall, got>>

\* sync.Once.doSlow: o.m.Lock(), then done is read again
OnceLock(c) ==
    /\ UNCHANGED <<run, tvars>>
    /\ spc[c] = "lock" /\ onceM = 0
    /\ onceM' = c
    /\ spc' = [spc EXCEPT ![c] = IF onceDone THEN "unlock" ELSE "f"]
    /\ UNCHANGED <<standardLogger, onceDone, nNew, ncall, got>>

\* lines 43-44: the function once.Do runs: logrus.New() and SetFormatter
OnceF(c) ==
    /\ UNCHANGED <<run, tvars>>
    /\ spc[c] = "f"
    /\ nNew' = nNew + 1
    /\ standardLogger' = nNew + 1
    /\ spc' = [spc EXCEPT ![c] = "unlock"]
    /\ UNCHANGED <<onceDone, onceM, ncall, got>>

\* sync.Once.doSlow's deferred calls: done.Store(1), o.m.Unlock()
OnceUnlock(c) ==
    /\ UNCHANGED <<run, tvars>>
    /\ spc[c] = "unlock"
    /\ onceDone' = TRUE
    /\ onceM' = 0
    /\ spc' = [spc EXCEPT ![c] = "ret"]
    /\ UNCHANGED <<standardLogger, nNew, ncall, got>>

\* line 46: return standardLogger
SLReturn(c) ==
    /\ UNCHANGED <<run, tvars>>
    /\ spc[c] = "ret"
    /\ got' = [got EXCEPT ![c] = standardLogger]
    /\ spc' = [spc EXCEPT ![c] = "idle"]
    /\ UNCHANGED <<standardLogger, onceDone, onceM, nNew, ncall>>

StandardLogger(c) ==
    SLCall(c) \/ OnceDo(c) \/ OnceLock(c) \/ OnceF(c) \/ OnceUnlock(c) \/ SLReturn(c)

NextOnce == \E c \in Callers : StandardLogger(c)

SpecOnce == Init /\ [][NextOnce]_vars

\* ================================================================ claims
Cnt(seq, e) == Cardinality({i \in 1..Len(seq) : seq[i] = e})

\* How often entry e stands in the log files.
FileCount(e) == SumOver([p \in AllPaths |-> Cnt(disk[p], e)], AllPaths)

\* Entry e stands exactly once in what sink s writes to.
Landed(e, s) ==
    IF s \in {Stdout, Stderr} THEN Cnt(console[s], e) = 1
    ELSE Cnt(disk[hpath[s]], e) = 1

\* One Init, which returned the teardown closure and no error, no teardown yet,
\* and no rotation has failed: what is left is the rotation goroutine of that
\* Init and the writers.
PlainRun ==
    /\ ~tornDown /\ nInits <= 1 /\ initErr = "ok"
    /\ \A r \in Rotators : nEmit[r] = 0 /\ failStage[r] = "none"

\* C1: under every interleaving of emissions with a rotation tick, no emission
\* writes to a closed file handle, and every entry written while a file is the
\* sink stands whole, exactly once, in one log file.
C1_NoEntryLost ==
    PlainRun =>
      \A w \in writes : w.sink \in Handles => w.ok /\ FileCount(w.e) = 1

\* One Init and one rotation goroutine, no teardown yet.
OneRotator == ~tornDown /\ nInits <= 1 /\ pc[Main] = "idle"

\* C2: when a rotation tick fails because the new dated file cannot be opened,
\* the previous handle is still the active sink and still open (so later
\* emissions land in the previously-open file).
C2_FailedOpenKeepsSink ==
    OneRotator =>
      \A r \in Rotators :
        pc[r] = "logerr" /\ failStage[r] = "open" =>
          out \in Handles /\ isOpen[out] /\ logFile = out

\* C3: at most one log file handle is open in every reachable state, and a
\* file is opened only when no handle is open: rotateLog closes the current
\* handle before it opens the next.
C3_AtMostOneOpen ==
    /\ [](Cardinality(OpenHandles) <= 1)
    /\ [][nHandles' # nHandles => OpenHandles = {}]_vars

\* A rotation has replaced the first file by a second, which is open.
C3_Witness == nHandles >= 2 /\ OpenHandles = {nHandles} /\ logFile = nHandles

C5_FailedInitLeavesNothing == initErr = "es" => Capability = pre

\* C6: no rotation tick is processed once teardown has been invoked.
C6_NoTickAfterTeardown == [][tornDown => nTicks' = nTicks]_vars

\* C7: once teardown has returned, no log file handle is open, whatever the
\* interleaving with a rotation tick.
C7_ClosedIsFinal == tornDown => OpenHandles = {}

\* C8: a tick that follows a failed one completes the rotation unless the
\* file system fails again during it: it fails only with a fault of its own.
C8_RetryCompletes ==
    OneRotator =>
      \A r \in Rotators : nEmit[r] > 0 /\ pc[r] = "logerr" => ioFault[r]

\* C9: an emission whose hook failed goes on to Entry.write, and once it has
\* returned its entry was handed to the active sink, where it stands exactly
\* once if that sink could be written.
C9_HookFailureKeepsWrite ==
    /\ \A t \in Emitters : hookErr[t] => pc[t] = "write" /\ cur[t] \in hookFailed
    /\ \A e \in hookFailed :
         (\A t \in Emitters : cur[t] # e) =>
           \E w \in writes : w.e = e /\ (w.ok => Landed(e, w.sink))

\* An entry whose hook failed stands in the sink.
C9_Witness ==
    \E w \in writes : w.e \in hookFailed /\ w.ok /\ Landed(w.e, w.sink)

\* C10: every entry built from a context carries a non-empty trace_id, the
\* context's own when it has one, whatever fields the caller adds.
C10_TraceIDAlways ==
    DOMAIN tentry # {} =>
      /\ TraceIDKey \in DOMAIN tentry
      /\ tentry[TraceIDKey] # NoValue
      /\ tctx # NoValue => tentry[TraceIDKey] = tctx

\* What entryFromContext and the emission functions do keep: the same, while
\* the caller's own fields have no trace_id key.
TraceIDUnlessOverridden ==
    DOMAIN tentry # {} /\ TraceIDKey \notin DOMAIN targs =>
      /\ TraceIDKey \in DOMAIN tentry
      /\ tentry[TraceIDKey] # NoValue
      /\ tctx # NoValue => tentry[TraceIDKey] = tctx

\* A hook of kind k is registered.
Registered(k) == \E i \in 1..Len(hooks) : hooks[i] = k

\* The package variable a hook of kind k reads is not nil.
NotNil(k) == (k = "meili" /\ meiliClient) \/ (k = "es" /\ esClient)

\* C11: while meiliClient (resp. esClient) is nil, no step submits anything to
\* that backend, and an emission is given a hook error only when some
\* registered hook has its client set: Fire with a nil client returns nil and
\* touches nothing.
C11_NilClientNoOp ==
    /\ [][\A k \in Kinds : ~NotNil(k) => calls'[k] = calls[k]]_vars
    /\ [][\A t \in Emitters :
            hookErr'[t] /\ ~hookErr[t] =>
              \E k \in Kinds : Registered(k) /\ NotNil(k)]_vars

\* An emission has fired two hooks: the first has a nil client and nothing was
\* submitted to its backend, the second has submitted the entry to its own.
C11_Witness ==
    \E w \in Writers :
      /\ Len(hooks) = 2 /\ hooks[1] # hooks[2]
      /\ ~NotNil(hooks[1]) /\ calls[hooks[1]] = <<>>
      /\ pc[w] = "write" /\ ~hookErr[w] /\ calls[hooks[2]] = <<cur[w]>>

\* One Init has returned its teardown closure, it was given no Meilisearch host
\* and no Elasticsearch address and the level Info, and teardown was not called.
NoIndexerRun ==
    /\ nInits = 1 /\ initErr = "ok" /\ pc[Main] = "idle" /\ ~tornDown
    /\ ~meiliClient /\ ~esClient /\ level = InfoLevel

\* The entries standing in the console streams and the log files.
SinkTotal ==
    SumOver([p \in AllPaths |-> Len(disk[p])], AllPaths)
      + Len(console[Stdout]) + Len(console[Stderr])

C13_Singleton ==
    /\ nNew <= 1
    /\ \A c \in Callers : spc[c] = "ret" => standardLogger # NilLogger
    /\ \A c \in Callers : ncall[c] > 0 /\ spc[c] = "idle" => got[c] = 1

\* Two callers have their logger, the one that constructed it and one that
\* came after, while a third, which read done before it was set, is at the
\* mutex.
C13_Witness ==
    \E c, d \in Callers :
      /\ c # d /\ got[c] = 1 /\ got[d] = 1 /\ nNew = 1
      /\ spc[c] = "idle" /\ spc[d] = "idle" /\ ncall[c] = 1 /\ ncall[d] = 1
      /\ \E e \in Callers : spc[e] = "lock"

\* In q the entries of each goroutine stand in the order it issued them.
InOrder(q) ==
    \A i \in 1..Len(q), j \in 1..Len(q) :
      i < j /\ q[i][1] = q[j][1] => q[i][2] < q[j][2]

\* No entry in the file of a later day was issued before an entry of the same
\* goroutine in the file of an earlier day.
DaysInOrder ==
    \A p1 \in AllPaths, p2 \in AllPaths :
      p1[1] = p2[1] /\ p1[2] < p2[2] =>
        \A i \in 1..Len(disk[p1]), j \in 1..Len(disk[p2]) :
          disk[p1][i][1] = disk[p2][j][1] => disk[p1][i][2] < disk[p2][j][2]

\* C14: the entries of a goroutine stand in each sink in the order of its
\* calls, and across a rotation the entry in the earlier day's file is the one
\* issued first.
C14_IssueOrder ==
    /\ \A p \in AllPaths : InOrder(disk[p])
    /\ \A c \in {Stdout, Stderr} : InOrder(console[c])
    /\ DaysInOrder

\* A writer's first entry is in the file of day 1 and, a rotation later, its
\* second in the file of day 2.
C14_Witness ==
    \E w \in Writers, p1 \in AllPaths, p2 \in AllPaths :
      /\ p1[2] = 1 /\ p2[2] = 2
      /\ \E i \in 1..Len(disk[p1]) : disk[p1][i][1] = w /\ disk[p1][i][2] = 1
      /\ \E j \in 1..Len(disk[p2]) : disk[p2][j][1] = w /\ disk[p2][j][2] = 2

\* C15: two successive entries built by the emission functions (no fields of
\* the caller's) from the same context carry the same trace_id, also when the
\* context has no trace id.
C15_SameContextSameID ==
    /\ DOMAIN tprev.entry # {} /\ DOMAIN tentry # {}
    /\ DOMAIN tprev.args = {} /\ DOMAIN targs = {}
    /\ tprev.ctx = tctx
    => tprev.entry[TraceIDKey] = tentry[TraceIDKey]

\* What a file held stays, and what is written later stands after it.
OnlyAppended ==
    \A p \in AllPaths :
      /\ Len(disk'[p]) >= Len(disk[p])
      /\ SubSeq(disk'[p], 1, Len(disk[p])) = disk[p]

\* Rotation goroutine r is between ticks and its last rotateLog returned nil:
\* the sink is the handle it opened, and nothing has closed it.
Rotated(r) == pc[r] = "wait" /\ f[r] # NilFile /\ out = f[r] /\ isOpen[out]

\* C16: a file opened on the day of the one before it has the same path; after
\* a tick that succeeded the sink is an open handle on the dated path of the
\* day; and no step removes or moves what a file holds, later entries go
\* after it.
C16_SameDayRotation ==
    /\ [](\A h \in 2..nHandles : hpath[h][2] = hpath[h - 1][2] => hpath[h] = hpath[h - 1])
    /\ [](\A r \in Rotators : Rotated(r) => hpath[out] = DatedPath(logPath, today))
    /\ [][OnlyAppended]_vars

\* A tick on the day of Init has reopened the file: the entry written through
\* the first handle is followed by the one written through the second.
C16_Witness ==
    /\ nHandles = 2 /\ hpath[1] = hpath[2] /\ \E r \in Rotators : Rotated(r)
    /\ Len(disk[hpath[2]]) = 2
    /\ [e |-> disk[hpath[2]][1], sink |-> 1, ok |-> TRUE] \in writes
    /\ [e |-> disk[hpath[2]][2], sink |-> 2, ok |-> TRUE] \in writes

\* C17: the error entry periodicLogRotation emits for a failed tick is
\* recorded: its write succeeds and it stands in the sink it was handed to,
\* the one that was active before the rotation.
C17_FailureRecorded ==
    ~tornDown /\ nInits <= 1 =>
      \A w \in writes : w.e[1] \in Rotators => w.ok /\ Landed(w.e, w.sink)

\* C18: at most one periodicLogRotation goroutine exists, however often Init
\* was called with file output.
C18_OneRotationTask == Cardinality(Running) <= 1

\* C19: an entry a hook has submitted to its backend was written to the sink
\* before: every entry in a backend's documents has its write record.
C19_WriteBeforeFire ==
    \A k \in Kinds : \A i \in 1..Len(calls[k]) :
      \E w \in writes : w.e = calls[k][i]

\* A step of an emission: a call is counted, a hook submits, or an entry is
\* handed to the sink.
EmissionStep == nEmit' # nEmit \/ calls' # calls \/ writes' # writes

\* The step of rotateLog that installs its file as the logger's output.
SwapStep ==
    \E r \in Rotators : pc[r] = "setout" /\ pc'[r] = "wait" /\ out' = logFile

\* A step in which, after Init has returned its teardown closure, the
\* configuration is stable.
StableStep ==
    /\ EmissionStep =>
         /\ level' = level /\ formatter' = formatter /\ hooks' = hooks
         /\ out' = out /\ logFile' = logFile /\ isOpen' = isOpen
    /\ out' # out => SwapStep \/ (pc' = pc /\ out' = Stdout)

\* C20: once Init has returned, a step of an emission or of a hook leaves
\* level, formatter, hooks, the sink and the file handle as they are, and a
\* step that is not a further Init changes the sink only in rotateLog's
\* SetOutput or in the package's SetOutput.
C20_StableAfterInit ==
    [][initErr = "ok" /\ pc[Main] = "idle" /\ pc'[Main] = "idle" /\ nInits' = nInits
         => StableStep]_vars

\* After Init with both indexers an entry has gone to the hooks and to the
\* file, a rotation has swapped the sink, and the configuration is Init's.
C20_Witness ==
    /\ initErr = "ok" /\ pc[Main] = "idle"
    /\ out = 2 /\ logFile = 2 /\ isOpen[2]
    /\ level = InfoLevel /\ formatter = "json" /\ hooks = <<"meili", "es">>
    /\ \E w \in writes : w.ok /\ w.sink = 1 /\ calls["meili"] = <<w.e>>

====
